---- MODULE Spec2Model ----
(***************************************************************************)
(* A model of syncd: the frame codec (src/src/codec.rs) and the sync       *)
(* protocol handler and event router (src/src/main.rs).                    *)
(*                                                                         *)
(* CodecSpec  a peer writes frames on a byte stream; the receiving side    *)
(*            of Framed<_, Codec> appends chunks of arbitrary size to the  *)
(*            read buffer and calls Codec::decode on it.                   *)
(* EncoderSpec  the write side: Codec::encode on the packages event_handler *)
(*            sends, with channel ids and payloads around the sizes the    *)
(*            length fields can hold.                                      *)
(* WatcherSpec  the watch queue: a burst of notifications from the watcher   *)
(*            callback against a router that takes them one at a time.     *)
(* HandlerSpec  calls of handle_message under every spelling of the sync   *)
(*            root and every variant of a small file system.               *)
(* Spec       event_handler: the select! loop over the framed connection   *)
(*            and the watcher queue, with handle_message working on a      *)
(*            small file system.                                           *)
(***************************************************************************)
EXTENDS Integers, Sequences, FiniteSets, TLC

\* ------------------------------------------------------------------ bounds

\* Frames the peer writes in one run of CodecSpec.
MaxFrames == 2
\* Events (inbound results and watcher notifications) in one run of Spec.
MaxEvents == 2
\* Notifications the watcher reports in one run of WatcherSpec: enough to
\* fill the watch queue while one is being handled and one more waits.
MaxReports == 34

\* --------------------------------------------------------------- variables

VARIABLES
    \* the connection's read side (CodecSpec)
    sent,       \* what the peer wrote, in order: packages and raw frames
    stream,     \* every byte the peer wrote
    pos,        \* how many bytes of stream the reader has appended to buffer
    buffer,     \* the read buffer of Framed, handed to decode as src
    readable,   \* Framed's is_readable: decode is called again before reading
    got,        \* packages decode has returned, in order
    last,       \* the last call of decode: buffer before, result, buffer after
    \* the process environment and configuration (HandlerSpec, Spec)
    cwd,        \* the current directory, an absolute path
    syncdir,    \* Args::syncdir as written on the command line
    fs,         \* the file system: absolute path -> node
    \* one call of handle_message (HandlerSpec)
    request,    \* the Protocol message handed to handle_message
    outcome,    \* what the call did: result, response, file system accesses
    \* event_handler (Spec)
    chan,       \* the configured channel, as bytes
    rpc,        \* where event_handler is: "connect", "select", "sending", "crashed"
    pending,    \* the package of the send being awaited, as <<pkg>>, or <<>>
    written,    \* the packages written to the connection, in order
    reported,   \* the notifications the watcher has called its callback with
    callback,   \* the notification the callback is in blocking_send with, as <<event>>
    watchQ,     \* the mpsc channel from the watcher callback to the router
    taken,      \* the events the select! loop has taken for handling, in order
    reaction    \* reaction[i]: the packages written in reaction to taken[i]

codecVars == <<sent, stream, pos, buffer, readable, got, last>>
envVars == <<cwd, syncdir, fs>>
handlerVars == <<request, outcome>>
routerVars == <<chan, rpc, pending, written, reported, callback, watchQ, taken, reaction>>

vars == <<codecVars, envVars, handlerVars, routerVars>>

\* ------------------------------------------------------------- byte strings

U8 == 256
U16 == 65536

Drop(s, n) == SubSeq(s, n + 1, Len(s))
Take(s, n) == SubSeq(s, 1, n)

\* Channel ids and payloads the peer uses: empty and not. 3 is also a tag
\* value and a small length, so a misread body can look like a frame header.
ChanIds == {<<>>, <<7>>}
Payloads == {<<>>, <<3>>}

\* ----------------------------------------------------------------- Package

Message(id, data) == [id |-> id, data |-> data, type |-> "Message"]
Subscribe(id) == [id |-> id, data |-> <<>>, type |-> "Subscribe"]
Unsubscribe(id) == [id |-> id, data |-> <<>>, type |-> "Unsubscribe"]
Ping(data) == [id |-> <<>>, data |-> data, type |-> "Ping"]
Pong(data) == [id |-> <<>>, data |-> data, type |-> "Pong"]

NoPackage == [id |-> <<>>, data |-> <<>>, type |-> "None"]

Packages ==
    {Message(id, d) : id \in ChanIds, d \in Payloads}
    \cup {Subscribe(id) : id \in ChanIds}
    \cup {Unsubscribe(id) : id \in ChanIds}
    \cup {Ping(d) : d \in Payloads}
    \cup {Pong(d) : d \in Payloads}

\* ------------------------------------------------------------ Codec::encode

\* put_u16 with the bytes in little-endian order.
put_u16_le(n) == <<(n % U16) % U8, (n % U16) \div U8>>

put_u16(n) == <<(n % U16) \div U8, (n % U16) % U8>>
put_u8(n) == <<n % U8>>

\* The scratch buffer `bytes` of encode: tag and type body.
encode_body(pkg) ==
    CASE pkg.type = "Message" -> <<0>> \o put_u8(Len(pkg.id)) \o pkg.id \o pkg.data
      [] pkg.type = "Subscribe" -> <<1>> \o put_u8(Len(pkg.id)) \o pkg.id
      [] pkg.type = "Unsubscribe" -> <<2>> \o put_u8(Len(pkg.id)) \o pkg.id
      [] pkg.type = "Ping" -> <<3>> \o pkg.data
      [] pkg.type = "Pong" -> <<4>> \o pkg.data

encode(pkg, dst) ==
    LET bytes == encode_body(pkg)
    IN dst \o put_u16(Len(bytes)) \o bytes

\* ------------------------------------------------------------ Codec::decode

\* What one call of decode gives: res is "some" (Ok(Some(pkg))), "none"
\* (Ok(None)) or "panic"; src is the buffer the call leaves behind.
DecodeResult(res, pkg, src) == [pkg |-> pkg, res |-> res, src |-> src]

get_u16(src) == src[1] * U8 + src[2]

\* Lines 40-56: tags 0, 1, 2 carry [id_len][id]; buf is the frame after the
\* tag, rest the buffer after the frame.
decode_channel(value, buf, rest) ==
    LET id_size == IF buf = <<>> THEN 0 ELSE buf[1]
    IN IF buf = <<>>
       THEN DecodeResult("panic", NoPackage, rest)   \* advance(1) on an empty buffer
       ELSE LET body == Tail(buf)
            IN IF Len(body) < id_size
               THEN DecodeResult("none", NoPackage, rest)
               ELSE LET id == Take(body, id_size)
                        data == Drop(body, id_size)
                    IN CASE value = 0 -> DecodeResult("some", Message(id, data), rest)
                         [] value = 1 -> DecodeResult("some", Subscribe(id), rest)
                         [] value = 2 -> DecodeResult("some", Unsubscribe(id), rest)

decode(src) ==
    IF Len(src) < 2
    THEN DecodeResult("none", NoPackage, src)
    ELSE LET size == get_u16(src)
             after == Drop(src, 2)              \* get_u16 has consumed the length
         IN IF size > 0 /\ Len(after) >= size
            THEN LET frame == Take(after, size)  \* split_to(size)
                     rest == Drop(after, size)
                     value == frame[1]
                     buf == Tail(frame)
                 IN CASE value \in {0, 1, 2} -> decode_channel(value, buf, rest)
                      [] value = 3 -> DecodeResult("some", Ping(buf), rest)
                      [] value = 4 -> DecodeResult("some", Pong(buf), rest)
                      [] OTHER -> DecodeResult("none", NoPackage, rest)
            ELSE DecodeResult("none", NoPackage, after)

\* The packages a reader gets from a buffer that holds all of `bytes` at once,
\* calling decode until it returns nothing.
RECURSIVE DecodeWhole(_)
DecodeWhole(bytes) ==
    LET r == decode(bytes)
    IN IF r.res = "some" THEN <<r.pkg>> \o DecodeWhole(r.src) ELSE <<>>

\* ------------------------------------------------------------------ frames

\* Frames a peer that does not use this encoder may write: a complete frame
\* with a tag outside 0..4, a frame of length 0, a channel frame without its
\* id_len byte, and a channel frame whose id_len exceeds what follows.
BadTags == {5}
BadTagFrames == {put_u16(1 + Len(d)) \o <<t>> \o d : t \in BadTags, d \in Payloads}
RawFrames == BadTagFrames \cup {<<0, 0>>, <<0, 1, 1>>, <<0, 2, 2, 3>>}

\* =========================================================== src/src/main.rs

\* ------------------------------------------------------------------- paths

\* A path is the sequence of its components as std::path yields them: "/"
\* for the root, "." only as the first component of a relative path, "..",
\* and names. "/r/d" is <<"/", "r", "d">>, "./r" is <<".", "r">>.
is_absolute(path) == path # <<>> /\ path[1] = "/"

\* PathBuf::join: an absolute argument replaces the base; a "." that is no
\* longer first is not a component of the result.
join(base, path) ==
    IF is_absolute(path) \/ base = <<>> THEN path
    ELSE IF path # <<>> /\ path[1] = "." THEN base \o Tail(path)
    ELSE base \o path

\* PathClean::clean: lexical, without looking at the file system.
RECURSIVE clean_into(_, _)
clean_into(out, comps) ==
    IF comps = <<>> THEN out
    ELSE LET c == Head(comps)
             rest == Tail(comps)
         IN CASE c = "." -> clean_into(out, rest)
              [] c = ".." ->
                    IF out = <<>> \/ out[Len(out)] = ".."
                    THEN clean_into(Append(out, c), rest)
                    ELSE IF out[Len(out)] = "/"
                    THEN clean_into(out, rest)
                    ELSE clean_into(Take(out, Len(out) - 1), rest)
              [] OTHER -> clean_into(Append(out, c), rest)

clean(path) ==
    LET out == clean_into(<<>>, path)
    IN IF out = <<>> THEN <<".">> ELSE out

\* Path::starts_with: a prefix, component by component.
starts_with(path, base) ==
    /\ Len(base) <= Len(path)
    /\ Take(path, Len(base)) = base

path_escapes_dir(path, dir) == ~starts_with(path, dir)

\* Path::strip_prefix, where starts_with holds.
strip_prefix(path, base) == Drop(path, Len(base))

\* ------------------------------------------------------------- file system

DirNode == [readable |-> TRUE, data |-> <<>>, kind |-> "dir", target |-> <<>>]
FileNode(data) == [readable |-> TRUE, data |-> data, kind |-> "file", target |-> <<>>]
SymlinkNode(target) == [readable |-> TRUE, data |-> <<>>, kind |-> "symlink", target |-> target]
\* A file and a directory the process has no permission to read, and a
\* socket: neither file, directory nor symlink.
LockedFileNode == [readable |-> FALSE, data |-> <<5>>, kind |-> "file", target |-> <<>>]
LockedDirNode == [readable |-> FALSE, data |-> <<>>, kind |-> "dir", target |-> <<>>]
SocketNode == [readable |-> FALSE, data |-> <<>>, kind |-> "socket", target |-> <<>>]

RootDir == <<"/">>
\* The directory every configuration below syncs, in canonical form.
SyncRoot == <<"/", "r">>

\* /s lies outside the sync root; /r/l varies.
BaseFs ==
    (RootDir :> DirNode)
    @@ (<<"/", "s">> :> FileNode(<<9>>))
    @@ (SyncRoot :> DirNode)
    @@ (<<"/", "r", "a">> :> FileNode(<<1, 2>>))
    @@ (<<"/", "r", "d">> :> DirNode)
    @@ (<<"/", "r", "d", "b">> :> FileNode(<<>>))

LNodes ==
    { SymlinkNode(RootDir),               \* to a directory outside the root
      SymlinkNode(<<"/", "s">>),          \* to a file outside the root
      SymlinkNode(<<"/", "r", "d">>),     \* to a directory inside the root
      SymlinkNode(<<"/", "r", "zz">>),    \* dangling
      LockedFileNode, LockedDirNode, SocketNode }

FileSystems == {BaseFs} \cup {BaseFs @@ (<<"/", "r", "l">> :> n) : n \in LNodes}

\* (cwd, --syncdir) pairs, all naming /r: absolute, the default ".", a bare
\* relative name, and spellings with "." and "..".
RootConfigs ==
    { [cwd |-> RootDir, syncdir |-> <<"/", "r">>],
      [cwd |-> SyncRoot, syncdir |-> <<".">>],
      [cwd |-> RootDir, syncdir |-> <<"r">>],
      [cwd |-> RootDir, syncdir |-> <<".", "r">>],
      [cwd |-> <<"/", "r", "d">>, syncdir |-> <<"..">>] }

NoEnt == <<>>

Parent(loc) == IF Len(loc) <= 1 THEN loc ELSE Take(loc, Len(loc) - 1)

IsDir(loc) == loc \in DOMAIN fs /\ fs[loc].kind = "dir"

\* Path resolution by the operating system: from directory cur, follow comps,
\* symbolic links included. The location reached, or NoEnt.
RECURSIVE walk(_, _)
walk(cur, comps) ==
    IF comps = <<>> THEN (IF cur \in DOMAIN fs THEN cur ELSE NoEnt)
    ELSE IF ~IsDir(cur) THEN NoEnt
    ELSE LET c == Head(comps)
             rest == Tail(comps)
             next == Append(cur, c)
         IN CASE c = "." -> walk(cur, rest)
              [] c = ".." -> walk(Parent(cur), rest)
              [] OTHER ->
                    IF next \notin DOMAIN fs THEN NoEnt
                    ELSE IF fs[next].kind = "symlink" THEN walk(fs[next].target, rest)
                    ELSE walk(next, rest)

resolve(path) ==
    IF is_absolute(path) THEN walk(RootDir, Tail(path)) ELSE walk(cwd, path)

\* std::fs::read
fs_read(path) ==
    LET loc == resolve(path)
    IN IF loc # NoEnt /\ fs[loc].kind = "file" /\ fs[loc].readable
       THEN [data |-> fs[loc].data, ok |-> TRUE, at |-> loc]
       ELSE [data |-> <<>>, ok |-> FALSE, at |-> NoEnt]

\* std::fs::read_dir: the names in the directory, or an error.
fs_read_dir(path) ==
    LET loc == resolve(path)
    IN IF IsDir(loc) /\ fs[loc].readable
       THEN [ok |-> TRUE, at |-> loc,
             names |-> {n[Len(n)] : n \in {m \in DOMAIN fs : Len(m) = Len(loc) + 1 /\ Take(m, Len(loc)) = loc}}]
       ELSE [ok |-> FALSE, at |-> NoEnt, names |-> {}]

\* DirEntry::file_type of the entry `name` of the directory at dirloc: the
\* entry itself, a symbolic link not followed.
file_type(dirloc, name) == fs[Append(dirloc, name)].kind

\* XxHash64 over the bytes: a function of the contents that is never the 0
\* hash_file returns on failure.
RECURSIVE XxHash64(_)
XxHash64(data) ==
    IF data = <<>> THEN 1
    ELSE ((XxHash64(Take(data, Len(data) - 1)) * 31 + data[Len(data)]) % 65521) + 1

\* ---------------------------------------------------------------- Protocol

Protocol_Ping == [type |-> "Ping"]
Protocol_Pong == [type |-> "Pong"]
List(path) == [type |-> "List", path |-> path]
ListResp(entries) == [type |-> "ListResp", entries |-> entries]
Get(path) == [type |-> "Get", path |-> path]
GetResp(path, contents) == [type |-> "GetResp", path |-> path, contents |-> contents]
FsEventCreate(path, entity) == [type |-> "FsEventCreate", path |-> path, entity |-> entity]
FsEventModify(path, hash) == [type |-> "FsEventModify", path |-> path, hash |-> hash]
FsEventRename(path_from, path_to) ==
    [type |-> "FsEventRename", path_from |-> path_from, path_to |-> path_to]
FsEventDelete(path) == [type |-> "FsEventDelete", path |-> path]

ListRespEntry(path, hash, entity) == [path |-> path, entity |-> entity, hash |-> hash]

NoProtocol == [type |-> "None"]

\* ------------------------------------------------------------------ helpers

hash_file(path) ==
    LET r == fs_read(path)
    IN IF r.ok THEN XxHash64(r.data) ELSE 0

\* The (path, file type) pairs of a directory; read_dir(path).unwrap() panics
\* when the path cannot be listed. The order of the Vec is the operating
\* system's, so the model keeps a set.
list_path(path) ==
    LET dirents == fs_read_dir(path)
    IN [at |-> dirents.at,
        panic |-> ~dirents.ok,
        paths |-> {[path |-> join(path, <<n>>), ftype |-> file_type(dirents.at, n)] :
                      n \in dirents.names}]

\* Lines 107-115.
entity_of(ftype) ==
    CASE ftype = "file" -> "File"
      [] ftype = "dir" -> "Directory"
      [] ftype = "symlink" -> "Symlink"
      [] OTHER -> "File"

\* ----------------------------------------------------------- handle_message

\* What a call of handle_message does: res is "some" (Some(msg)), "none"
\* (None) or "panic"; reads are the file system accesses it made, each the
\* location the operating system resolved the path to.
HandlerResult(res, msg, reads) == [res |-> res, msg |-> msg, reads |-> reads]

ListAccess(loc) == [at |-> loc, op |-> "read_dir"]
ReadAccess(loc) == [at |-> loc, op |-> "read"]

handle_list(path, dir) ==
    LET watchpath == clean(join(dir, path))
    IN IF path_escapes_dir(watchpath, dir)
       THEN HandlerResult("none", NoProtocol, {})
       ELSE LET listed == list_path(watchpath)
            IN IF listed.panic
               THEN HandlerResult("panic", NoProtocol, {})
               ELSE IF \E e \in listed.paths : ~starts_with(e.path, dir)
               THEN HandlerResult("panic", NoProtocol, {ListAccess(listed.at)})
               ELSE HandlerResult("some",
                        ListResp({ListRespEntry(strip_prefix(e.path, dir),
                                                hash_file(e.path),
                                                entity_of(e.ftype)) : e \in listed.paths}),
                        {ListAccess(listed.at)}
                        \cup {ReadAccess(fs_read(e.path).at) :
                                 e \in {x \in listed.paths : fs_read(x.path).ok}})

handle_get(path, dir) ==
    LET watchpath == clean(join(dir, path))
    IN IF path_escapes_dir(watchpath, dir)
       THEN HandlerResult("none", NoProtocol, {})
       ELSE LET r == fs_read(watchpath)
            IN IF r.ok
               THEN HandlerResult("some", GetResp(path, r.data), {ReadAccess(r.at)})
               ELSE HandlerResult("none", NoProtocol, {})

handle_message(message, dir) ==
    CASE message.type = "Ping" -> HandlerResult("some", Protocol_Pong, {})
      [] message.type = "List" -> handle_list(message.path, dir)
      [] message.type = "Get" -> handle_get(message.path, dir)
      [] OTHER -> HandlerResult("none", NoProtocol, {})


\* ---------------------------------------------------------- handle_fs_event

\* A notify::Event: its kind and its paths. The watcher reports paths below
\* the directory it was given, made absolute with the current directory.
Event(kind, paths) == [kind |-> kind, paths |-> paths]

Watched(rel) == join(join(cwd, syncdir), rel)

\* EventKind::Remove(_)
RemoveKinds == {"Remove(File)", "Remove(Folder)", "Remove(Any)"}

FsEvents ==
    { Event("Create(File)", <<Watched(<<"a">>)>>),
      Event("Create(Folder)", <<Watched(<<"d">>)>>),
      Event("Modify(Data)", <<Watched(<<"a">>)>>),
      Event("Modify(Name(Both))", <<Watched(<<"a">>), Watched(<<"d", "b">>)>>),
      Event("Remove(File)", <<Watched(<<"a">>)>>),
      Event("Remove(Folder)", <<Watched(<<"d">>)>>),
      Event("Access(Open)", <<Watched(<<"a">>)>>),
      Event("Other", <<>>) }

handle_fs_event(event, dir) ==
    LET fullpath == join(cwd, dir)
    IN IF event.paths = <<>>                               \* event.paths[0]
       THEN HandlerResult("panic", NoProtocol, {})
       ELSE LET path == event.paths[1]
            IN IF ~starts_with(path, fullpath)
               THEN HandlerResult("panic", NoProtocol, {})
               ELSE LET strippath == strip_prefix(path, fullpath)
                    IN CASE event.kind = "Create(File)" ->
                              HandlerResult("some", FsEventCreate(strippath, "File"), {})
                         [] event.kind = "Create(Folder)" ->
                              HandlerResult("some", FsEventCreate(strippath, "Directory"), {})
                         [] event.kind = "Modify(Data)" ->
                              HandlerResult("some", FsEventModify(strippath, hash_file(path)), {})
                         [] event.kind = "Modify(Name(Both))" ->
                              IF Len(event.paths) < 2 \/ ~starts_with(event.paths[2], fullpath)
                              THEN HandlerResult("panic", NoProtocol, {})
                              ELSE HandlerResult("some",
                                       FsEventRename(strippath,
                                                     strip_prefix(event.paths[2], fullpath)), {})
                         [] event.kind \in RemoveKinds ->
                              HandlerResult("some", FsEventDelete(strippath), {})
                         [] OTHER -> HandlerResult("none", NoProtocol, {})

\* ------------------------------------------------------------ event_handler

\* ciborium: the bytes of a serialized Protocol message are kept as the
\* two-element sequence of the serialization's name and the message; any
\* other payload, the empty one included, is no message.
ProtocolTypes ==
    { "Ping", "Pong", "List", "ListResp", "Get", "GetResp", "FsEventCreate",
      "FsEventModify", "FsEventRename", "FsEventDelete", "FsEventUnknown" }

into_writer(msg) == <<"cbor", msg>>

from_reader(payload) ==
    IF Len(payload) = 2 /\ payload[1] = "cbor" /\ payload[2].type \in ProtocolTypes
    THEN [ok |-> TRUE, msg |-> payload[2]]
    ELSE [ok |-> FALSE, msg |-> NoProtocol]

\* What one branch of the select! does before it awaits its send, if any:
\* crash is a panic, send is <<pkg>> for framed_conn.send(pkg) or <<>>.
Step(crash, send) == [crash |-> crash, send |-> send]

\* on_message replying on the session's own channel.
on_message_own_channel(channel, payload, dir) ==
    LET deserialized == from_reader(payload)
    IN IF ~deserialized.ok
       THEN Step(TRUE, <<>>)
       ELSE LET response == handle_message(deserialized.msg, dir)
            IN CASE response.res = "panic" -> Step(TRUE, <<>>)
                 [] response.res = "some" ->
                        Step(FALSE, <<Message(chan, into_writer(response.msg))>>)
                 [] OTHER -> Step(FALSE, <<>>)

\* on_message ignoring a payload that is no Protocol message.
on_message_skip_undecodable(channel, payload, dir) ==
    LET deserialized == from_reader(payload)
    IN IF ~deserialized.ok
       THEN Step(FALSE, <<>>)
       ELSE LET response == handle_message(deserialized.msg, dir)
            IN CASE response.res = "panic" -> Step(TRUE, <<>>)
                 [] response.res = "some" ->
                        Step(FALSE, <<Message(channel, into_writer(response.msg))>>)
                 [] OTHER -> Step(FALSE, <<>>)

\* Lines 178-185.
on_message(channel, payload, dir) ==
    LET deserialized == from_reader(payload)
    IN IF ~deserialized.ok
       THEN Step(TRUE, <<>>)                                \* unwrap
       ELSE LET response == handle_message(deserialized.msg, dir)
            IN CASE response.res = "panic" -> Step(TRUE, <<>>)
                 [] response.res = "some" ->
                        Step(FALSE, <<Message(channel, into_writer(response.msg))>>)
                 [] OTHER -> Step(FALSE, <<>>)

\* on_inbound answering a Ping with an empty Pong.
on_inbound_empty_pong(result, dir) ==
    IF ~result.ok THEN Step(FALSE, <<>>)
    ELSE CASE result.pkg.type = "Ping" -> Step(FALSE, <<Pong(<<>>)>>)
           [] result.pkg.type = "Message" ->
                  on_message(result.pkg.id, result.pkg.data, dir)
           [] OTHER -> Step(FALSE, <<>>)

\* Lines 172-193: result is what framed_conn.next() gave, Ok(pkg) or Err.
on_inbound(result, dir) ==
    IF ~result.ok THEN Step(FALSE, <<>>)                    \* println
    ELSE CASE result.pkg.type = "Ping" -> Step(FALSE, <<Pong(result.pkg.data)>>)
           [] result.pkg.type = "Message" ->
                  on_message(result.pkg.id, result.pkg.data, dir)
           [] OTHER -> Step(FALSE, <<>>)

\* on_fs_event publishing on the empty channel id.
on_fs_event_empty_channel(event, own, dir) ==
    LET response == handle_fs_event(event, dir)
    IN CASE response.res = "panic" -> Step(TRUE, <<>>)
         [] response.res = "some" ->
                Step(FALSE, <<Message(<<>>, into_writer(response.msg))>>)
         [] OTHER -> Step(FALSE, <<>>)

\* Lines 194-201.
on_fs_event(event, own, dir) ==
    LET response == handle_fs_event(event, dir)
    IN CASE response.res = "panic" -> Step(TRUE, <<>>)
         [] response.res = "some" ->
                Step(FALSE, <<Message(own, into_writer(response.msg))>>)
         [] OTHER -> Step(FALSE, <<>>)

Ok(pkg) == [pkg |-> pkg, ok |-> TRUE]
Err == [pkg |-> NoPackage, ok |-> FALSE]

FromConn(result) == [result |-> result, source |-> "conn"]
FromWatcher(event) == [event |-> event, source |-> "watcher"]

\* mpsc::channel(32)
WatchCapacity == 32

\* The Protocol messages the relay forwards in Spec.
RouterRequests ==
    { List(<<".">>), List(<<"zz">>), Get(<<"a">>), Get(<<"..">>) }

\* ------------------------------------------------------------ HandlerSpec

\* Request paths: inside the root, leaving it with "..", absolute, through
\* /r/l, missing.
ReqPaths ==
    { <<".">>, <<"a">>, <<"d">>, <<"d", "b">>, <<"d", "..", "a">>, <<"zz">>,
      <<"..">>, <<"..", "s">>, <<"/", "s">>, <<"l">>, <<"l", "s">>, <<"l", "b">> }

Requests ==
    {List(p) : p \in ReqPaths} \cup {Get(p) : p \in ReqPaths}

NoOutcome == HandlerResult("never", NoProtocol, {})

\* ---------------------------------------------------------------- CodecSpec

NoCall == [pkg |-> NoPackage, res |-> "never", after |-> <<>>, before |-> <<>>]

\* The variables of the other specifications, at rest.
EnvIdle == cwd = RootDir /\ syncdir = SyncRoot /\ fs = BaseFs
HandlerIdle == request = NoProtocol /\ outcome = NoOutcome
RouterIdle ==
    /\ chan = <<>>
    /\ rpc = "connect"
    /\ pending = <<>>
    /\ written = <<>>
    /\ reported = <<>>
    /\ callback = <<>>
    /\ watchQ = <<>>
    /\ taken = <<>>
    /\ reaction = <<>>

CodecIdle ==
    /\ sent = <<>>
    /\ stream = <<>>
    /\ pos = 0
    /\ buffer = <<>>
    /\ readable = FALSE
    /\ got = <<>>
    /\ last = NoCall

CodecInit ==
    /\ EnvIdle
    /\ HandlerIdle
    /\ RouterIdle
    /\ sent = <<>>
    /\ stream = <<>>
    /\ pos = 0
    /\ buffer = <<>>
    /\ readable = FALSE
    /\ got = <<>>
    /\ last = NoCall

Alive == last.res # "panic"

\* The peer encodes one package onto the connection.
PeerEncode ==
    /\ Alive
    /\ Len(sent) < MaxFrames
    /\ \E pkg \in Packages :
        /\ sent' = Append(sent, pkg)
        /\ stream' = encode(pkg, stream)
    /\ UNCHANGED <<pos, buffer, readable, got, last, envVars, handlerVars, routerVars>>

\* The peer writes a frame that encode never produces.
PeerRaw ==
    /\ Alive
    /\ Len(sent) < MaxFrames
    /\ \E f \in RawFrames :
        /\ sent' = Append(sent, [id |-> <<>>, data |-> f, type |-> "Raw"])
        /\ stream' = stream \o f
    /\ UNCHANGED <<pos, buffer, readable, got, last, envVars, handlerVars, routerVars>>

\* Framed reads whatever the connection has ready, n bytes, into buffer.
FramedRead ==
    /\ Alive
    /\ ~readable
    /\ \E n \in 1..(Len(stream) - pos) :
        /\ buffer' = buffer \o SubSeq(stream, pos + 1, pos + n)
        /\ pos' = pos + n
    /\ readable' = TRUE
    /\ UNCHANGED <<sent, stream, got, last, envVars, handlerVars, routerVars>>

\* Framed calls decode on buffer; Ok(None) sends it back to reading.
FramedDecode ==
    /\ Alive
    /\ readable
    /\ LET r == decode(buffer)
       IN /\ last' = [pkg |-> r.pkg, res |-> r.res, after |-> r.src, before |-> buffer]
          /\ buffer' = r.src
          /\ got' = IF r.res = "some" THEN Append(got, r.pkg) ELSE got
          /\ readable' = (r.res = "some")
    /\ UNCHANGED <<sent, stream, pos, envVars, handlerVars, routerVars>>

CodecNext == PeerEncode \/ PeerRaw \/ FramedRead \/ FramedDecode

CodecSpec == CodecInit /\ [][CodecNext]_vars

\* -------------------------------------------------------------- EncoderSpec

\* Lengths of the configured channel (--channel is any string) and of a
\* payload (a Pong echo, a serialized GetResp or ListResp of any size),
\* around what one length byte and the 16-bit frame length can hold.
ChanLens == {0, 1, 2, U8 - 2, U8 - 1, U8}
PayloadLens == {0, 1, 2, U16 - U8, U16 - 2, U16}
FillBytes == {7, 97}

Filled(n, b) == [i \in 1..n |-> b]

LongChanIds == {Filled(n, b) : n \in ChanLens, b \in FillBytes}
LongPayloads == {Filled(n, b) : n \in PayloadLens, b \in FillBytes}

\* framed_conn.send(pkg): encode into the empty write buffer, then flush.
Send(pkg) ==
    /\ sent' = <<pkg>>
    /\ stream' = encode(pkg, <<>>)
    /\ UNCHANGED <<pos, buffer, readable, got, last, envVars, handlerVars, routerVars>>

\* Line 169.
SendSubscribe == \E id \in LongChanIds : Send(Subscribe(id))
\* Line 176.
SendPong == \E d \in LongPayloads : Send(Pong(d))
\* Lines 183 and 198.
SendMessage == \E id \in LongChanIds, d \in LongPayloads : Send(Message(id, d))

EncoderNext == SendSubscribe \/ SendPong \/ SendMessage

EncoderSpec == CodecInit /\ [][EncoderNext]_vars

\* -------------------------------------------------------------- HandlerSpec

\* One process: a sync root as configured, a file system, and calls of
\* handle_message on it.
HandlerInit ==
    /\ CodecIdle
    /\ RouterIdle
    /\ \E c \in RootConfigs : cwd = c.cwd /\ syncdir = c.syncdir
    /\ fs \in FileSystems
    /\ request = NoProtocol
    /\ outcome = NoOutcome

Handle(message) ==
    /\ outcome.res # "panic"
    /\ request' = message
    /\ outcome' = handle_message(message, syncdir)
    /\ UNCHANGED <<codecVars, envVars, routerVars>>

HandleList == \E p \in ReqPaths : Handle(List(p))
HandleGet == \E p \in ReqPaths : Handle(Get(p))
HandlePing == Handle(Protocol_Ping)
HandleOther ==
    \/ Handle(Protocol_Pong)
    \/ \E p \in ReqPaths : Handle(FsEventDelete(p))

HandlerNext == HandleList \/ HandleGet \/ HandlePing \/ HandleOther

HandlerSpec == HandlerInit /\ [][HandlerNext]_vars

\* --------------------------------------------------------------------- Spec

\* main and event_handler: the session of one process.
Init ==
    /\ CodecIdle
    /\ HandlerIdle
    /\ \E c \in RootConfigs : cwd = c.cwd /\ syncdir = c.syncdir
    /\ fs = BaseFs
    /\ chan \in ChanIds
    /\ rpc = "connect"
    /\ pending = <<>>
    /\ written = <<>>
    /\ reported = <<>>
    /\ callback = <<>>
    /\ watchQ = <<>>
    /\ taken = <<>>
    /\ reaction = <<>>

Budget == Len(taken) + Len(watchQ) + Len(callback) < MaxEvents

\* event_handler entering its loop without the send of line 169.
StartupWithoutSubscribe ==
    /\ rpc = "connect"
    /\ rpc' = "select"
    /\ UNCHANGED <<codecVars, envVars, handlerVars, chan, pending, written, reported, callback, watchQ, taken, reaction>>

\* Line 169: the send of Subscribe starts.
Startup ==
    /\ rpc = "connect"
    /\ pending' = <<Subscribe(chan)>>
    /\ rpc' = "sending"
    /\ UNCHANGED <<codecVars, envVars, handlerVars, chan, written, reported, callback, watchQ, taken, reaction>>

\* Line 165: TcpStream::connect fails and unwrap panics.
ConnectFails ==
    /\ rpc = "connect"
    /\ rpc' = "crashed"
    /\ UNCHANGED <<codecVars, envVars, handlerVars, chan, pending, written, reported, callback, watchQ, taken, reaction>>

\* SendDone putting the package on the connection ahead of the previous one.
SendDoneReordered ==
    /\ rpc = "sending"
    /\ written' = IF Len(written) >= 2
                  THEN Append(Append(Take(written, Len(written) - 1), pending[1]),
                              written[Len(written)])
                  ELSE Append(written, pending[1])
    /\ reaction' = IF taken = <<>> THEN reaction
                   ELSE [reaction EXCEPT ![Len(taken)] = Append(@, pending[1])]
    /\ pending' = <<>>
    /\ rpc' = "select"
    /\ UNCHANGED <<codecVars, envVars, handlerVars, chan, reported, callback, watchQ, taken>>

\* The send being awaited completes: the package is on the connection.
SendDone ==
    /\ rpc = "sending"
    /\ written' = Append(written, pending[1])
    /\ reaction' = IF taken = <<>> THEN reaction
                   ELSE [reaction EXCEPT ![Len(taken)] = Append(@, pending[1])]
    /\ pending' = <<>>
    /\ rpc' = "select"
    /\ UNCHANGED <<codecVars, envVars, handlerVars, chan, reported, callback, watchQ, taken>>

\* React handing its package to a writer and returning to select! at once.
ReactWithoutWaiting(event, step) ==
    /\ taken' = Append(taken, event)
    /\ reaction' = Append(reaction, <<>>)
    /\ pending' = IF step.crash THEN <<>> ELSE step.send
    /\ rpc' = IF step.crash THEN "crashed" ELSE "select"
    /\ UNCHANGED <<codecVars, envVars, handlerVars, chan, written, reported, callback>>

\* The branch taken runs up to its send.
React(event, step) ==
    /\ taken' = Append(taken, event)
    /\ reaction' = Append(reaction, <<>>)
    /\ pending' = IF step.crash THEN <<>> ELSE step.send
    /\ rpc' = IF step.crash THEN "crashed"
              ELSE IF step.send # <<>> THEN "sending" ELSE "select"
    /\ UNCHANGED <<codecVars, envVars, handlerVars, chan, written, reported, callback>>

TakeInbound(result) ==
    /\ rpc = "select"
    /\ Budget
    /\ React(FromConn(result), on_inbound(result, syncdir))
    /\ UNCHANGED watchQ

\* select! takes framed_conn.next(): a Ping, ...
InboundPing == \E d \in Payloads : TakeInbound(Ok(Ping(d)))

\* ... a Message carrying a Protocol message, or one that is no Protocol
\* message, ...
InboundMessage ==
    \E c \in ChanIds :
        \/ \E m \in RouterRequests : TakeInbound(Ok(Message(c, into_writer(m))))
        \/ TakeInbound(Ok(Message(c, into_writer(Protocol_Ping))))
        \/ TakeInbound(Ok(Message(c, into_writer(FsEventDelete(<<"a">>)))))
        \/ \E d \in Payloads : TakeInbound(Ok(Message(c, d)))

\* ... a package the client is not interested in, or an error.
InboundOther ==
    \/ TakeInbound(Ok(Pong(<<>>)))
    \/ TakeInbound(Ok(Subscribe(<<7>>)))
    \/ TakeInbound(Ok(Unsubscribe(<<7>>)))
    \/ TakeInbound(Err)

\* Line 217: the watcher calls the callback with event; the callback runs on
\* the watcher's one thread, so not before the previous call has returned.
Report(event) ==
    /\ rpc # "crashed"
    /\ callback = <<>>
    /\ reported' = Append(reported, event)
    /\ callback' = <<event>>
    /\ UNCHANGED <<codecVars, envVars, handlerVars, chan, rpc, pending, written, watchQ, taken, reaction>>

WatcherNotify == Budget /\ \E event \in FsEvents : Report(event)

\* tx.blocking_send dropping the notification when the queue is full.
SendOrDrop ==
    /\ rpc # "crashed"
    /\ callback # <<>>
    /\ watchQ' = IF Len(watchQ) < WatchCapacity THEN Append(watchQ, callback[1]) ELSE watchQ
    /\ callback' = <<>>
    /\ UNCHANGED <<codecVars, envVars, handlerVars, chan, rpc, pending, written, reported, taken, reaction>>

\* Line 218: tx.blocking_send(event) returns once the queue has room.
BlockingSend ==
    /\ rpc # "crashed"
    /\ callback # <<>>
    /\ Len(watchQ) < WatchCapacity
    /\ watchQ' = Append(watchQ, callback[1])
    /\ callback' = <<>>
    /\ UNCHANGED <<codecVars, envVars, handlerVars, chan, rpc, pending, written, reported, taken, reaction>>

\* select! takes rx_watcher.recv().
TakeFsEvent ==
    /\ rpc = "select"
    /\ watchQ # <<>>
    /\ watchQ' = Tail(watchQ)
    /\ React(FromWatcher(Head(watchQ)), on_fs_event(Head(watchQ), chan, syncdir))

Next ==
    \/ Startup
    \/ ConnectFails
    \/ SendDone
    \/ InboundPing
    \/ InboundMessage
    \/ InboundOther
    \/ WatcherNotify
    \/ BlockingSend
    \/ TakeFsEvent

Spec == Init /\ [][Next]_vars

\* -------------------------------------------------------------- WatcherSpec

\* The watch queue under load: the watcher reports a burst of notifications
\* while the router takes them one at a time and may be held up in a write.
\* The n-th notification of the burst is fixed, so that the order is visible.
Burst ==
    << Event("Create(File)", <<Watched(<<"a">>)>>),
       Event("Access(Open)", <<Watched(<<"a">>)>>),
       Event("Remove(File)", <<Watched(<<"a">>)>> ) >>

BurstNotify ==
    /\ Len(reported) < MaxReports
    /\ Report(Burst[(Len(reported) % Len(Burst)) + 1])

WatcherInit == Init /\ syncdir = SyncRoot

WatcherNext ==
    \/ Startup
    \/ SendDone
    \/ BurstNotify
    \/ BlockingSend
    \/ TakeFsEvent

WatcherSpec == WatcherInit /\ [][WatcherNext]_vars

\* ---------------------------------------------------- claims on the handler

\* The sync root and the location a request path designates, as the operating
\* system resolves them: ".." and symbolic links followed. NoEnt when the
\* path names nothing.
CanonRoot == resolve(syncdir)
Designated(path) == resolve(join(syncdir, path))
Inside(loc) == starts_with(loc, CanonRoot)

\* The request path taken lexically below the canonical root.
Lexical(path) == clean(join(CanonRoot, path))

\* C5: path containment. When the location the sync root joined with the
\* request path designates is not inside the sync root, List and Get return
\* no response and list or read nothing outside the root.
C5_PathContainment ==
    ( /\ request.type \in {"List", "Get"}
      /\ Designated(request.path) # NoEnt
      /\ ~Inside(Designated(request.path)) )
    => /\ outcome.res \in {"none", "panic"}
       /\ \A a \in outcome.reads : Inside(a.at)

\* What the claim C9 expects of one child of a listed directory.
ChildBytes(loc) ==
    LET t == IF fs[loc].kind = "symlink" THEN fs[loc].target ELSE loc
    IN IF t \in DOMAIN fs /\ fs[t].kind = "file" /\ fs[t].readable
       THEN [data |-> fs[t].data, ok |-> TRUE]
       ELSE [data |-> <<>>, ok |-> FALSE]

ChildEntity(loc) ==
    CASE fs[loc].kind = "dir" -> "Directory"
      [] fs[loc].kind = "symlink" -> "Symlink"
      [] OTHER -> "File"

Children(dirloc) ==
    {m \in DOMAIN fs : Len(m) = Len(dirloc) + 1 /\ Take(m, Len(dirloc)) = dirloc}

\* One entry per direct child of dirloc, each path being rel and the name.
ExpectedEntries(dirloc, rel) ==
    { ListRespEntry(Append(rel, c[Len(c)]),
                    IF ChildBytes(c).ok THEN XxHash64(ChildBytes(c).data) ELSE 0,
                    ChildEntity(c)) : c \in Children(dirloc) }

ListableInside(path) ==
    /\ IsDir(Designated(path))
    /\ fs[Designated(path)].readable
    /\ Inside(Designated(path))

\* C9: List of a directory inside the sync root returns ListResp with one
\* entry per direct child: its path relative to the sync root (as the request
\* names it, or in canonical form), its kind, and the hash of its bytes or 0.
C9_ListEntries ==
    (request.type = "List" /\ ListableInside(request.path))
    => /\ outcome.res = "some"
       /\ outcome.msg.type = "ListResp"
       /\ \/ outcome.msg.entries =
                ExpectedEntries(Designated(request.path),
                                strip_prefix(Designated(request.path), CanonRoot))
          \/ /\ starts_with(Lexical(request.path), CanonRoot)
             /\ outcome.msg.entries =
                    ExpectedEntries(Designated(request.path),
                                    strip_prefix(Lexical(request.path), CanonRoot))

\* A Get path that resolves inside the sync root: to a location in it, or to
\* nothing at a path that lies lexically below the root.
GetInside(path) ==
    IF Designated(path) # NoEnt
    THEN Inside(Designated(path))
    ELSE starts_with(Lexical(path), CanonRoot)

Readable(loc) == loc # NoEnt /\ fs[loc].kind = "file" /\ fs[loc].readable

\* C10: Get of a path inside the sync root returns GetResp with the request's
\* path and the file's bytes when the file can be read, and otherwise returns
\* no response (and does not panic).
C10_GetFidelity ==
    (request.type = "Get" /\ GetInside(request.path))
    => IF Readable(Designated(request.path))
       THEN /\ outcome.res = "some"
            /\ outcome.msg.type = "GetResp"
            /\ outcome.msg.path = request.path
            /\ outcome.msg.contents = fs[Designated(request.path)].data
       ELSE outcome.res = "none"

\* A List path that resolves inside the sync root to something that cannot be
\* listed: nothing, a file, a directory without read permission.
NotListableInside(path) ==
    /\ GetInside(path)
    /\ ~(IsDir(Designated(path)) /\ fs[Designated(path)].readable)

\* C18: List of a path inside the sync root that cannot be listed returns no
\* response, and does nothing else.
C18_ListNeverAborts ==
    (request.type = "List" /\ NotListableInside(request.path))
    => outcome.res = "none"

\* C19: no false refusal. Under every spelling of the sync root, List of a
\* listable directory inside the root returns a ListResp and Get of a readable
\* file inside the root returns a GetResp.
C19_NoFalseRefusal ==
    /\ (request.type = "List" /\ ListableInside(request.path))
       => (outcome.res = "some" /\ outcome.msg.type = "ListResp")
    /\ ( /\ request.type = "Get"
         /\ Readable(Designated(request.path))
         /\ Inside(Designated(request.path)) )
       => (outcome.res = "some" /\ outcome.msg.type = "GetResp")

\* ----------------------------------------------------- claims on the router

IsInbound(e, type) == e.source = "conn" /\ e.result.ok /\ e.result.pkg.type = type

\* The reaction to taken[i] is exactly the package of this type, channel and
\* payload: written, or being sent while nothing else has been taken.
ReactionIs(i, type, id, data) ==
    LET is(s) == /\ Len(s) = 1
                 /\ s[1].type = type
                 /\ s[1].id = id
                 /\ s[1].data = data
    IN \/ is(reaction[i]) /\ ~(i = Len(taken) /\ rpc = "sending")
       \/ reaction[i] = <<>> /\ i = Len(taken) /\ rpc = "sending" /\ is(pending)

NoReaction(i) == reaction[i] = <<>> /\ ~(i = Len(taken) /\ rpc = "sending")

\* C6: the first package written is Subscribe(chan); it is written before any
\* event is taken for handling; no other Subscribe or Unsubscribe is written.
C6_SubscribeFirst ==
    /\ written # <<>> => (written[1].type = "Subscribe" /\ written[1].id = chan)
    /\ taken # <<>> => written # <<>>
    /\ \A i \in 2..Len(written) : written[i].type \notin {"Subscribe", "Unsubscribe"}

C6_Witness ==
    /\ Len(written) >= 2
    /\ \E i \in 1..Len(taken) : IsInbound(taken[i], "Subscribe")

\* C7: the reaction to an inbound Ping{payload} is the one package
\* Pong{payload}, and no other event is taken before it is written.
C7_PingEcho ==
    \A i \in 1..Len(taken) :
        IsInbound(taken[i], "Ping") =>
            ReactionIs(i, "Pong", <<>>, taken[i].result.pkg.data)

C7_Witness ==
    /\ Len(taken) = 2
    /\ IsInbound(taken[1], "Ping")
    /\ taken[1].result.pkg.data = <<3>>
    /\ Len(written) = 2
    /\ written[2].type = "Pong"
    /\ written[2].data = <<3>>

\* What handle_message returns for the Protocol message in taken[i].
Handled(i) == handle_message(from_reader(taken[i].result.pkg.data).msg, syncdir)

\* C8: the response to an inbound Message on channel c is written as a
\* Message on channel c; when the handler returns nothing, nothing is
\* written.
C8_ReplyOnRequestChannel ==
    \A i \in 1..Len(taken) :
        (IsInbound(taken[i], "Message") /\ from_reader(taken[i].result.pkg.data).ok) =>
            /\ Handled(i).res = "some" =>
                   ReactionIs(i, "Message", taken[i].result.pkg.id,
                              into_writer(Handled(i).msg))
            /\ Handled(i).res = "none" => NoReaction(i)

C8_Witness ==
    \E i \in 1..Len(taken) :
        /\ IsInbound(taken[i], "Message")
        /\ taken[i].result.pkg.id # chan
        /\ Len(reaction[i]) = 1
        /\ reaction[i][1].type = "Message"
        /\ reaction[i][1].id = taken[i].result.pkg.id
        /\ from_reader(reaction[i][1].data).msg.type = "ListResp"

\* The packages sent in reaction to taken[i]: written, or being written.
Sends(i) == reaction[i] \o (IF i = Len(taken) THEN pending ELSE <<>>)

IsNotification(e) == e.source = "watcher"

\* The kinds of notification that have a translation.
TranslatedKinds ==
    {"Create(File)", "Create(Folder)", "Modify(Data)", "Modify(Name(Both))"} \cup RemoveKinds

\* msg is the translation of notification e: the variant and entity for the
\* kind, and paths that name the notification's paths below the watched root.
Translates(e, msg) ==
    CASE e.kind = "Create(File)" ->
            msg.type = "FsEventCreate" /\ msg.entity = "File" /\ Watched(msg.path) = e.paths[1]
      [] e.kind = "Create(Folder)" ->
            msg.type = "FsEventCreate" /\ msg.entity = "Directory" /\ Watched(msg.path) = e.paths[1]
      [] e.kind = "Modify(Data)" ->
            msg.type = "FsEventModify" /\ Watched(msg.path) = e.paths[1]
      [] e.kind = "Modify(Name(Both))" ->
            /\ msg.type = "FsEventRename"
            /\ Watched(msg.path_from) = e.paths[1]
            /\ Watched(msg.path_to) = e.paths[2]
      [] e.kind \in RemoveKinds ->
            msg.type = "FsEventDelete" /\ Watched(msg.path) = e.paths[1]
      [] OTHER -> FALSE

\* C11: a notification of a kind in the translation table is answered by one
\* Message that carries its translation; a notification of any other kind by
\* no package; and every Message sent for a notification is on the session's
\* own channel, whatever channels inbound Messages came on before.
C11_FsEventTranslation ==
    \A i \in 1..Len(taken) :
        IsNotification(taken[i]) =>
            /\ \A k \in 1..Len(Sends(i)) :
                   Sends(i)[k].type = "Message" /\ Sends(i)[k].id = chan
            /\ IF taken[i].event.kind \in TranslatedKinds
               THEN /\ Len(Sends(i)) = 1
                    /\ from_reader(Sends(i)[1].data).ok
                    /\ Translates(taken[i].event, from_reader(Sends(i)[1].data).msg)
               ELSE Sends(i) = <<>>

\* A rename published on the own channel after a request on another one.
C11_Witness ==
    /\ Len(taken) = 2
    /\ IsInbound(taken[1], "Message")
    /\ taken[1].result.pkg.id # chan
    /\ IsNotification(taken[2])
    /\ taken[2].event.kind = "Modify(Name(Both))"
    /\ Len(reaction[2]) = 1
    /\ reaction[2][1].id = chan
    /\ from_reader(reaction[2][1].data).msg.type = "FsEventRename"

IsError(e) == e.source = "conn" /\ ~e.result.ok

\* The session has ended: event_handler takes no event and writes nothing.
Ended == rpc \notin {"select", "sending"}

\* C12: once framed_conn.next() has delivered an error the session ends: the
\* error is the last event handled, and nothing is written after it.
C12_FrameErrorIsFatal ==
    \A i \in 1..Len(taken) :
        IsError(taken[i]) => (i = Len(taken) /\ Ended)

Undecodable(e) == IsInbound(e, "Message") /\ ~from_reader(e.result.pkg.data).ok

\* C13: an inbound Message whose payload is no Protocol message ends the
\* session: nothing is sent for it and it is the last event handled.
C13_PayloadErrorIsFatal ==
    \A i \in 1..Len(taken) :
        Undecodable(taken[i]) =>
            /\ i = Len(taken)
            /\ Ended
            /\ Sends(i) = <<>>

\* The session ended on a non-empty undecodable payload with a notification
\* still in the watch queue.
C13_Witness ==
    /\ taken # <<>>
    /\ Undecodable(taken[Len(taken)])
    /\ taken[Len(taken)].result.pkg.data # <<>>
    /\ watchQ # <<>>
    /\ rpc = "crashed"

Untranslatable(e) == IsNotification(e) /\ e.event.kind \notin TranslatedKinds

\* C14: a notification of a kind outside the translation table, with or
\* without a path, is dropped: nothing is sent for it and the router is back
\* at its select!, ready for the next event.
C14_UntranslatableDropped ==
    \A i \in 1..Len(taken) :
        Untranslatable(taken[i]) =>
            /\ Sends(i) = <<>>
            /\ i = Len(taken) => rpc = "select"

\* What the router decides to emit for event e: at most one package.
Decided(e) ==
    LET step == IF e.source = "conn"
                THEN on_inbound(e.result, syncdir)
                ELSE on_fs_event(e.event, chan, syncdir)
    IN IF step.crash THEN <<>> ELSE step.send

\* The packages decided for taken[1..n], in the order the events were taken.
RECURSIVE DecidedUpTo(_)
DecidedUpTo(n) == IF n = 0 THEN <<>> ELSE DecidedUpTo(n - 1) \o Decided(taken[n])

\* C15: every event taken causes at most one write, and what is on the
\* connection (with the package being written) is Subscribe followed by the
\* packages decided for the events, in the order the events were taken.
C15_OutboundOrdering ==
    /\ \A i \in 1..Len(taken) : Len(Sends(i)) <= 1
    /\ IF taken = <<>> /\ rpc \in {"connect", "crashed"}
       THEN written = <<>>
       ELSE written \o pending = <<Subscribe(chan)>> \o DecidedUpTo(Len(taken))

\* A notification and then a Ping, both answered: three packages written.
C15_Witness ==
    /\ Len(taken) = 2
    /\ IsNotification(taken[1])
    /\ IsInbound(taken[2], "Ping")
    /\ Len(written) = 3
    /\ written[2].type = "Message"
    /\ written[3].type = "Pong"

\* C16: while a write is in progress, however long the connection takes to
\* accept it, no event is taken from either source: the events taken stay
\* as they are and the watch queue loses nothing.
C16_RunToCompletion ==
    [][pending # <<>> => (taken' = taken /\ Take(watchQ', Len(watchQ)) = watchQ)]_vars

\* A reply is being written while a notification waits in the queue.
C16_Witness ==
    /\ rpc = "sending"
    /\ Len(taken) = 1
    /\ IsInbound(taken[1], "Message")
    /\ pending # <<>>
    /\ watchQ # <<>>

\* The notifications the router has taken, in the order taken.
RECURSIVE NotificationsTaken(_)
NotificationsTaken(n) ==
    IF n = 0 THEN <<>>
    ELSE IF IsNotification(taken[n])
    THEN Append(NotificationsTaken(n - 1), taken[n].event)
    ELSE NotificationsTaken(n - 1)

\* C20: the watch queue never holds more than 32 notifications, and nothing
\* is dropped, overwritten, duplicated or reordered: the notifications taken
\* by the router, those in the queue and the one the blocked callback holds
\* are, in this order, exactly the notifications the watcher reported.
C20_WatchQueue ==
    /\ Len(watchQ) <= WatchCapacity
    /\ NotificationsTaken(Len(taken)) \o watchQ \o callback = reported

\* The queue is full, the callback is blocked with one more notification,
\* and the router has taken one.
C20_Witness ==
    /\ Len(watchQ) = WatchCapacity
    /\ callback # <<>>
    /\ NotificationsTaken(Len(taken)) # <<>>

\* ------------------------------------------------------- claims on the codec

\* C17: the frame encode writes for a package is well formed: the 16-bit
\* length prefix is the number of bytes after it, that number is at most
\* 65535, and the id_len byte of a Message or Subscribe is the length of the
\* channel id.
C17_FrameWellFormed ==
    (sent # <<>> /\ sent[1].type \in {"Message", "Subscribe", "Pong"}) =>
        /\ Len(stream) >= 2
        /\ get_u16(stream) = Len(stream) - 2
        /\ Len(stream) - 2 <= U16 - 1
        /\ sent[1].type \in {"Message", "Subscribe"} => stream[4] = Len(sent[1].id)

AllEncoded == \A i \in 1..Len(sent) : sent[i].type # "Raw"
Drained == pos = Len(stream) /\ ~readable

\* C1: streaming equivalence. Once every byte of a sequence of encoded frames
\* has been appended to the buffer, in whatever chunks, and decode has been
\* called until it returned nothing, the packages decoded are those decoded
\* from the whole byte sequence placed in the buffer at once.
C1_StreamingEquivalence ==
    (AllEncoded /\ Drained /\ Alive) => got = DecodeWhole(stream)

\* Fewer than 2 bytes, or fewer than L body bytes after the length L.
Incomplete(b) == Len(b) < 2 \/ Len(b) - 2 < get_u16(b)

\* C2: a call of decode that signals incomplete leaves the buffer as it was.
C2_IncompleteLeavesBuffer ==
    (last.res = "none" /\ Incomplete(last.before)) => last.after = last.before

\* C3: round trip. decode on a buffer holding exactly encode(pkg) returns pkg
\* and leaves the buffer empty, for every variant, with empty and non-empty
\* channel ids and payloads.
C3_RoundTrip ==
    \A pkg \in Packages :
        last.before = encode(pkg, <<>>) =>
            /\ last.res = "some"
            /\ last.pkg = pkg
            /\ last.after = <<>>

C3_Witness ==
    /\ last.before = encode(Message(<<7>>, <<>>), <<>>)
    /\ last.res = "some"
    /\ last.pkg = Message(<<7>>, <<>>)

\* A buffer that starts with a complete frame whose tag is not in 0..4.
CompleteBadTag(b) ==
    /\ Len(b) >= 2
    /\ get_u16(b) > 0
    /\ Len(b) - 2 >= get_u16(b)
    /\ b[3] \notin {0, 1, 2, 3, 4}

\* C4: decode reports a fatal error for a complete frame with a tag outside
\* 0..4.
C4_BadTagIsFatal ==
    CompleteBadTag(last.before) => last.res = "error"

====
